---------------------------- MODULE Spec2Model ----------------------------
(***************************************************************************)
(* Model of ludwig/utils/backward_compatibility.py: the in-place upgrade   *)
(* of a configuration document written against an older schema.            *)
(*                                                                         *)
(* A document is a tree of tagged values: a mapping (python dict), a       *)
(* sequence (python list) or a scalar (int, str, None).  The orchestrator  *)
(* upgrade_deprecated_fields is a state machine with one action per step   *)
(* of its body (one per feature for the loop of line 204); the rules it    *)
(* calls are operators computing the mutated node, the notices emitted     *)
(* through warnings.warn, and whether the rule raised.                     *)
(***************************************************************************)
EXTENDS Integers, Sequences, FiniteSets, TLC

VARIABLES config, pc, fi, notices, calls, walked, config0, run, first

vars == <<config, pc, fi, notices, calls, walked, config0, run, first>>

(***************************************************************************)
(* Bounds of the model.                                                    *)
(***************************************************************************)
MaxFeatures == 1     \* longest input_features / output_features list
MaxRuns == 2         \* upgrade_deprecated_fields is called this many times

(***************************************************************************)
(* Values: python dict, list, int, str, None.                              *)
(***************************************************************************)
MapV(f) == [kind |-> "map", val |-> f]
SeqV(s) == [kind |-> "seq", val |-> s]
IntV(n) == [kind |-> "int", val |-> n]
StrV(s) == [kind |-> "str", val |-> s]
NoneV == [kind |-> "none", val |-> "None"]
EmptyMap == MapV([k \in {} |-> NoneV])

IsDict(v) == v.kind = "map"
IsList(v) == v.kind = "seq"

Keys(d) == DOMAIN d.val
Has(d, k) == k \in DOMAIN d.val
Get(d, k) == d.val[k]
\* d[k] = v
Put(d, k, v) == MapV([x \in (DOMAIN d.val) \cup {k} |-> IF x = k THEN v ELSE d.val[x]])
\* del d[k]
Del(d, k) == MapV([x \in (DOMAIN d.val) \ {k} |-> d.val[x]])
\* d.get(k): None when the key is absent
GetOrNone(d, k) == IF Has(d, k) THEN Get(d, k) ELSE NoneV

(***************************************************************************)
(* ludwig.constants and the input feature type registry.                   *)
(***************************************************************************)
DEFAULTS == "defaults"
EVAL_BATCH_SIZE == "eval_batch_size"
EXECUTOR == "executor"
HYPEROPT == "hyperopt"
INPUT_FEATURES == "input_features"
NUMBER == "number"
OUTPUT_FEATURES == "output_features"
PARAMETERS == "parameters"
PREPROCESSING == "preprocessing"
RAY == "ray"
SAMPLER == "sampler"
SCHEDULER == "scheduler"
SEARCH_ALG == "search_alg"
TRAINER == "trainer"
TRAINING == "training"
TYPE == "type"

input_type_registry ==
    {"binary", "number", "category", "set", "bag", "sequence", "text",
     "vector", "audio", "date", "h3", "image", "timeseries"}

(***************************************************************************)
(* _upgrade_use_bias (lines 56-72): three independent renames, each with   *)
(* its notice.                                                             *)
(***************************************************************************)
RenameBias(r, old, new) ==
    IF Has(r.node, old)
    THEN [node  |-> Del(Put(r.node, new, Get(r.node, old)), old),
          notes |-> Append(r.notes, old)]
    ELSE r

UpgradeUseBias(cfg) ==
    RenameBias(
        RenameBias(
            RenameBias([node |-> cfg, notes |-> <<>>], "bias", "use_bias"),
            "conv_bias", "conv_use_bias"),
        "default_bias", "default_use_bias")

(***************************************************************************)
(* _traverse_dicts (lines 42-53) with f = _upgrade_use_bias.  The result   *)
(* holds the mutated node, the notices, and calls: the paths of the nodes  *)
(* f was called on, in call order.  A path names a node by the keys and    *)
(* list positions leading to it from the root of the walk.  Siblings of a  *)
(* dict are walked in one fixed order.                                     *)
(***************************************************************************)
Idx(i) == ToString(i)

RECURSIVE TraverseDicts(_, _)
RECURSIVE TraverseItems(_, _, _)
RECURSIVE TraverseList(_, _, _)

\* for k, v in config.items(): _traverse_dicts(v, f)      (lines 48-49)
TraverseItems(cfg, keys, path) ==
    IF keys = {}
    THEN [node |-> cfg, notes |-> <<>>, calls |-> <<>>]
    ELSE LET k == CHOOSE x \in keys : TRUE
             r == TraverseDicts(Get(cfg, k), Append(path, k))
             rest == TraverseItems(Put(cfg, k, r.node), keys \ {k}, path)
         IN [node  |-> rest.node,
             notes |-> r.notes \o rest.notes,
             calls |-> r.calls \o rest.calls]

\* TraverseList walking only the elements that are dicts: a list inside a list
\* is not entered.
TraverseListDictsOnly(cfg, i, path) ==
    IF i > Len(cfg.val)
    THEN [node |-> cfg, notes |-> <<>>, calls |-> <<>>]
    ELSE LET r == IF IsDict(cfg.val[i])
                  THEN TraverseDicts(cfg.val[i], Append(path, Idx(i)))
                  ELSE [node |-> cfg.val[i], notes |-> <<>>, calls |-> <<>>]
             rest == TraverseList(SeqV([cfg.val EXCEPT ![i] = r.node]), i + 1, path)
         IN [node  |-> rest.node,
             notes |-> r.notes \o rest.notes,
             calls |-> r.calls \o rest.calls]

\* for v in config: _traverse_dicts(v, f)                 (lines 52-53)
TraverseList(cfg, i, path) ==
    IF i > Len(cfg.val)
    THEN [node |-> cfg, notes |-> <<>>, calls |-> <<>>]
    ELSE LET r == TraverseDicts(cfg.val[i], Append(path, Idx(i)))
             rest == TraverseList(SeqV([cfg.val EXCEPT ![i] = r.node]), i + 1, path)
         IN [node  |-> rest.node,
             notes |-> r.notes \o rest.notes,
             calls |-> r.calls \o rest.calls]

\* TraverseDicts calling f on a dict before walking its values.
TraverseDictsPreOrder(cfg, path) ==
    IF IsDict(cfg)
    THEN LET u == UpgradeUseBias(cfg)
             r == TraverseItems(u.node, Keys(u.node), path)
         IN [node  |-> r.node,
             notes |-> u.notes \o r.notes,
             calls |-> <<path>> \o r.calls]
    ELSE IF IsList(cfg)
    THEN TraverseList(cfg, 1, path)
    ELSE [node |-> cfg, notes |-> <<>>, calls |-> <<>>]

TraverseDicts(cfg, path) ==
    IF IsDict(cfg)
    THEN LET r == TraverseItems(cfg, Keys(cfg), path)
             u == UpgradeUseBias(r.node)
         IN [node  |-> u.node,
             notes |-> r.notes \o u.notes,
             calls |-> Append(r.calls, path)]
    ELSE IF IsList(cfg)
    THEN TraverseList(cfg, 1, path)
    ELSE [node |-> cfg, notes |-> <<>>, calls |-> <<>>]

(***************************************************************************)
(* _upgrade_feature (lines 75-80).                                         *)
(***************************************************************************)
UpgradeFeature(feature) ==
    LET numerical == GetOrNone(feature, TYPE) = StrV("numerical")
        f1 == IF numerical THEN Put(feature, TYPE, StrV(NUMBER)) ELSE feature
        w  == TraverseDicts(f1, <<>>)
    IN [node  |-> w.node,
        notes |-> (IF numerical THEN <<"numerical">> ELSE <<>>) \o w.notes,
        calls |-> w.calls]

(***************************************************************************)
(* _upgrade_hyperopt (lines 83-151).                                       *)
(***************************************************************************)
\* k.startswith("training.")
StartsWithTraining(k) == Len(k) >= 9 /\ SubSeq(k, 1, 9) = "training."
\* TrainerKey without the new prefix: k[len("training."):]
TrainerKeyNoPrefix(k) == SubSeq(k, 10, Len(k))
\* "trainer." + k[len("training."):]
TrainerKey(k) == "trainer." \o SubSeq(k, 10, Len(k))

\* lines 88-95: the loop over a snapshot of the keys of hyperopt.parameters
RECURSIVE RenameParameters(_, _)
RenameParameters(r, keys) ==
    IF keys = {}
    THEN r
    ELSE LET k == CHOOSE x \in keys : TRUE
         IN IF StartsWithTraining(k)
            THEN RenameParameters(
                     [node  |-> Del(Put(r.node, TrainerKey(k), Get(r.node, k)), k),
                      notes |-> Append(r.notes, "training.")],
                     keys \ {k})
            ELSE RenameParameters(r, keys \ {k})

\* lines 86-95
HyperoptParameters(hyperopt) ==
    IF Has(hyperopt, PARAMETERS)
    THEN LET r == RenameParameters([node |-> Get(hyperopt, PARAMETERS), notes |-> <<>>],
                                   Keys(Get(hyperopt, PARAMETERS)))
         IN [node |-> Put(hyperopt, PARAMETERS, r.node), notes |-> r.notes]
    ELSE [node |-> hyperopt, notes |-> <<>>]

\* ExecutorType without the `is not None` test: a missing type is forced too
ExecutorTypeForced(hpexecutor) ==
    LET executor_type == GetOrNone(hpexecutor, TYPE)
    IN IF executor_type # StrV(RAY)
       THEN [node |-> Put(hpexecutor, TYPE, StrV(RAY)), notes |-> <<"executor_type">>]
       ELSE [node |-> hpexecutor, notes |-> <<>>]

\* lines 100-107: the executor's type is rewritten only when it is set and not "ray"
ExecutorType(hpexecutor) ==
    LET executor_type == GetOrNone(hpexecutor, TYPE)
    IN IF executor_type # NoneV /\ executor_type # StrV(RAY)
       THEN [node |-> Put(hpexecutor, TYPE, StrV(RAY)), notes |-> <<"executor_type">>]
       ELSE [node |-> hpexecutor, notes |-> <<>>]

\* HyperoptExecutor promoting the executor's search_alg over a top-level one
HyperoptExecutorOverwrites(hyperopt) ==
    IF Has(hyperopt, EXECUTOR)
    THEN LET t  == ExecutorType(Get(hyperopt, EXECUTOR))
             h1 == Put(hyperopt, EXECUTOR, t.node)
         IN IF Has(t.node, SEARCH_ALG)
            THEN [node  |-> Put(Put(h1, SEARCH_ALG, Get(t.node, SEARCH_ALG)),
                                EXECUTOR, Del(t.node, SEARCH_ALG)),
                  notes |-> t.notes]
            ELSE [node |-> h1, notes |-> t.notes]
    ELSE [node  |-> Put(hyperopt, EXECUTOR, MapV((TYPE :> StrV(RAY)))),
          notes |-> <<"missing_executor">>]

\* lines 98-119
HyperoptExecutor(hyperopt) ==
    IF Has(hyperopt, EXECUTOR)
    THEN LET t  == ExecutorType(Get(hyperopt, EXECUTOR))
             h1 == Put(hyperopt, EXECUTOR, t.node)
         IN IF Has(t.node, SEARCH_ALG)
            THEN LET h2 == IF ~Has(h1, SEARCH_ALG)
                           THEN Put(h1, SEARCH_ALG, Get(t.node, SEARCH_ALG))
                           ELSE h1
                 IN [node  |-> Put(h2, EXECUTOR, Del(t.node, SEARCH_ALG)),
                     notes |-> t.notes]
            ELSE [node |-> h1, notes |-> t.notes]
    ELSE [node  |-> Put(hyperopt, EXECUTOR, MapV((TYPE :> StrV(RAY)))),
          notes |-> <<"missing_executor">>]

\* lines 134-140: copy sampler[key] into executor[key] unless the executor has it
SamplerToExecutor(r, key) ==
    IF Has(Get(r.node, SAMPLER), key) /\ ~Has(Get(r.node, EXECUTOR), key)
    THEN [node  |-> Put(r.node, EXECUTOR,
                        Put(Get(r.node, EXECUTOR), key, Get(Get(r.node, SAMPLER), key))),
          notes |-> Append(r.notes, "moved_" \o key)]
    ELSE r

\* lines 122-143
HyperoptSampler(hyperopt) ==
    IF Has(hyperopt, SAMPLER)
    THEN LET promote == Has(Get(hyperopt, SAMPLER), SEARCH_ALG) /\ ~Has(hyperopt, SEARCH_ALG)
             r1 == IF promote
                   THEN [node  |-> Put(hyperopt, SEARCH_ALG, Get(Get(hyperopt, SAMPLER), SEARCH_ALG)),
                         notes |-> <<"sampler", "moved_search_alg">>]
                   ELSE [node |-> hyperopt, notes |-> <<"sampler">>]
             r2 == SamplerToExecutor(r1, "num_samples")
             r3 == SamplerToExecutor(r2, SCHEDULER)
         IN [node |-> Del(r3.node, SAMPLER), notes |-> r3.notes]
    ELSE [node |-> hyperopt, notes |-> <<>>]

\* lines 145-151
HyperoptDefaultSearchAlg(hyperopt) ==
    IF ~Has(hyperopt, SEARCH_ALG)
    THEN [node  |-> Put(hyperopt, SEARCH_ALG, MapV((TYPE :> StrV("variant_generator")))),
          notes |-> <<"missing_search_alg">>]
    ELSE [node |-> hyperopt, notes |-> <<>>]

UpgradeHyperopt(hyperopt) ==
    LET a == HyperoptParameters(hyperopt)
        b == HyperoptExecutor(a.node)
        c == HyperoptSampler(b.node)
        d == HyperoptDefaultSearchAlg(c.node)
    IN [node |-> d.node, notes |-> a.notes \o b.notes \o c.notes \o d.notes]

(***************************************************************************)
(* _upgrade_trainer (lines 154-161).                                       *)
(***************************************************************************)
UpgradeTrainer(trainer) ==
    IF GetOrNone(trainer, EVAL_BATCH_SIZE) = IntV(0)
    THEN [node |-> Put(trainer, EVAL_BATCH_SIZE, NoneV), notes |-> <<"eval_batch_size">>]
    ELSE [node |-> trainer, notes |-> <<>>]

(***************************************************************************)
(* ludwig.utils.misc_utils.merge_dict: the recursive union of dct and      *)
(* merge_dct as a copy; where both hold a mapping under a key the two are  *)
(* merged, anywhere else the value of merge_dct wins.                      *)
(***************************************************************************)
RECURSIVE MergeDict(_, _)
RECURSIVE MergeKeys(_, _, _)
MergeKeys(dct, merge_dct, keys) ==
    IF keys = {}
    THEN dct
    ELSE LET k == CHOOSE x \in keys : TRUE
             v == IF Has(dct, k) /\ IsDict(Get(dct, k)) /\ IsDict(Get(merge_dct, k))
                  THEN MergeDict(Get(dct, k), Get(merge_dct, k))
                  ELSE Get(merge_dct, k)
         IN MergeKeys(Put(dct, k, v), merge_dct, keys \ {k})

MergeDict(dct, merge_dct) == MergeKeys(dct, merge_dct, Keys(merge_dct))

\* python dict.update: every key of other is set in d
DictUpdate(d, other) ==
    MapV([k \in Keys(d) \cup Keys(other) |->
            IF Has(other, k) THEN Get(other, k) ELSE Get(d, k)])

(***************************************************************************)
(* _upgrade_preprocessing (lines 164-191).  The result also tells whether  *)
(* the call returned (ok) or raised; when it raises, node is the document  *)
(* as the exception leaves it.                                             *)
(***************************************************************************)
\* line 172: the keys of `preprocessing` that are registered feature types
StagedTypes(cfg) == Keys(Get(cfg, PREPROCESSING)) \cap input_type_registry

\* The orders in which the loops of lines 171 and 183 can meet the staged
\* types: the order of the keys of the `preprocessing` dict.
Orders(S) ==
    {o \in [1..Cardinality(S) -> S] : \A i, j \in 1..Cardinality(S) : o[i] = o[j] => i = j}

\* lines 171-178: pop every staged type out of `preprocessing`
RECURSIVE PopStaged(_, _)
PopStaged(cfg, types) ==
    IF types = {}
    THEN cfg
    ELSE LET t == CHOOSE x \in types : TRUE
         IN PopStaged(Put(cfg, PREPROCESSING, Del(Get(cfg, PREPROCESSING), t)), types \ {t})

\* lines 180-181
EnsureDefaults(cfg) == IF ~Has(cfg, DEFAULTS) THEN Put(cfg, DEFAULTS, EmptyMap) ELSE cfg

\* lines 184-191: one iteration of the loop over the staged entries
RelocateOne(cfg, feature_type, preprocessing_param) ==
    LET defaults == Get(cfg, DEFAULTS)
        SetEntry(e) == Put(cfg, DEFAULTS, Put(defaults, feature_type, e))
    IN IF ~Has(defaults, feature_type)
       THEN [node |-> SetEntry(preprocessing_param), ok |-> TRUE]
       ELSE LET entry == Get(defaults, feature_type)
            IN IF ~Has(entry, PREPROCESSING)
               THEN IF Has(preprocessing_param, PREPROCESSING)
                    THEN [node |-> SetEntry(Put(entry, PREPROCESSING,
                                                Get(preprocessing_param, PREPROCESSING))),
                          ok |-> TRUE]
                    ELSE [node |-> cfg, ok |-> FALSE]        \* KeyError, line 187
               ELSE IF /\ IsDict(Get(entry, PREPROCESSING))
                       /\ Has(preprocessing_param, PREPROCESSING)
                       /\ IsDict(Get(preprocessing_param, PREPROCESSING))
                    THEN LET existing == Get(entry, PREPROCESSING)
                             merged == MergeDict(existing, Get(preprocessing_param, PREPROCESSING))
                         IN [node |-> SetEntry(Put(entry, PREPROCESSING,
                                                   DictUpdate(existing, merged))),
                             ok |-> TRUE]
                    ELSE [node |-> cfg, ok |-> FALSE]        \* KeyError / AttributeError, lines 189-190

\* lines 183-191
RECURSIVE RelocateStaged(_, _, _, _)
RelocateStaged(cfg, staged, order, i) ==
    IF i > Len(order)
    THEN [node |-> cfg, ok |-> TRUE]
    ELSE LET r == RelocateOne(cfg, order[i], Get(staged, order[i]))
         IN IF r.ok THEN RelocateStaged(r.node, staged, order, i + 1) ELSE r

UpgradePreprocessing(cfg, order) ==
    LET staged == Get(cfg, PREPROCESSING)
        c1 == PopStaged(cfg, StagedTypes(cfg))
        c2 == EnsureDefaults(c1)
        r  == RelocateStaged(c2, staged, order, 1)
    IN [node  |-> r.node,
        notes |-> [i \in 1..Len(order) |-> "preprocessing"],
        ok    |-> r.ok]

(***************************************************************************)
(* upgrade_deprecated_fields (lines 194-214).                              *)
(***************************************************************************)
ListOf(cfg, key) == IF Has(cfg, key) THEN Get(cfg, key).val ELSE <<>>

\* line 204: config.get(INPUT_FEATURES, []) + config.get(OUTPUT_FEATURES, [])
FeatureList(cfg) == ListOf(cfg, INPUT_FEATURES) \o ListOf(cfg, OUTPUT_FEATURES)

\* the i-th feature of that list is the same object as the entry of the
\* document's own list: mutating it mutates the document
SetFeature(cfg, i, node) ==
    LET n == Len(ListOf(cfg, INPUT_FEATURES))
    IN IF i <= n
       THEN Put(cfg, INPUT_FEATURES, SeqV([Get(cfg, INPUT_FEATURES).val EXCEPT ![i] = node]))
       ELSE Put(cfg, OUTPUT_FEATURES, SeqV([Get(cfg, OUTPUT_FEATURES).val EXCEPT ![i - n] = node]))

\* RenameTraining that keeps a `trainer` the document already has
RenameTrainingKeepsTrainer(cfg) ==
    IF Has(cfg, TRAINING)
    THEN [node  |-> Del(IF Has(cfg, TRAINER) THEN cfg ELSE Put(cfg, TRAINER, Get(cfg, TRAINING)),
                        TRAINING),
          notes |-> <<"training">>]
    ELSE [node |-> cfg, notes |-> <<>>]

\* lines 199-202
RenameTraining(cfg) ==
    IF Has(cfg, TRAINING)
    THEN [node |-> Del(Put(cfg, TRAINER, Get(cfg, TRAINING)), TRAINING), notes |-> <<"training">>]
    ELSE [node |-> cfg, notes |-> <<>>]

(***************************************************************************)
(* The documents the upgrade is run on.  Absent marks a key the document   *)
(* does not have; Build makes the mapping of the keys that are present.    *)
(***************************************************************************)
Absent == [kind |-> "absent", val |-> "absent"]
Build(f) == MapV([k \in {x \in DOMAIN f : f[x] # Absent} |-> f[k]])

\* lists of at most MaxFeatures entries
ListsOf(S) == {SeqV(l) : l \in UNION {[1..n -> S] : n \in 0..MaxFeatures}}

Nested ==
    {Absent,
     MapV(("conv_bias" :> IntV(0)) @@ ("use_bias" :> IntV(1))),
     MapV(("bias" :> MapV(("bias" :> IntV(1))))),
     MapV(("fc_layers" :> SeqV(<<SeqV(<<MapV(("default_bias" :> IntV(1))), IntV(3)>>),
                                  MapV(("bias" :> IntV(0)))>>))),
     MapV(("norm_params" :> EmptyMap) @@ ("dims" :> SeqV(<<>>))
          @@ ("default_bias" :> SeqV(<<MapV(("conv_bias" :> NoneV))>>)))}

Features ==
    {Build((TYPE :> t) @@ ("bias" :> b) @@ ("encoder" :> e)) :
        t \in {Absent, StrV("numerical"), StrV("category")},
        b \in {Absent, IntV(1)},
        e \in Nested}

OutFeatures ==
    {MapV((TYPE :> StrV("numerical")) @@ ("decoder" :> MapV(("bias" :> IntV(1))))),
     MapV((TYPE :> StrV(NUMBER)))}

Trainings ==
    {Absent,
     MapV((EVAL_BATCH_SIZE :> IntV(0)) @@ ("epochs" :> IntV(5))),
     MapV((EVAL_BATCH_SIZE :> IntV(8))),
     MapV(("epochs" :> IntV(5)))}

Trainers ==
    {Absent,
     MapV((EVAL_BATCH_SIZE :> IntV(0))),
     MapV((EVAL_BATCH_SIZE :> IntV(16))),
     EmptyMap}

Alg(name) == MapV((TYPE :> StrV(name)))

Hyperopts ==
    {Absent} \cup
    {Build((PARAMETERS :> p) @@ (EXECUTOR :> e) @@ (SAMPLER :> s) @@ (SEARCH_ALG :> a)) :
        p \in {Absent,
               EmptyMap,
               MapV(("training.learning_rate" :> IntV(1))),
               MapV(("training.learning_rate" :> IntV(1)) @@ ("trainer.learning_rate" :> IntV(2))
                    @@ ("combiner.size" :> IntV(3))),
               MapV(("training.training.x" :> IntV(1)))},
        e \in {Absent,
               EmptyMap,
               MapV((TYPE :> StrV(RAY))),
               MapV((TYPE :> StrV("serial"))),
               MapV((TYPE :> StrV(RAY)) @@ (SEARCH_ALG :> Alg("hyperopt"))),
               MapV((SEARCH_ALG :> Alg("hyperopt")) @@ ("num_samples" :> IntV(5))),
               MapV((TYPE :> StrV("serial")) @@ (SCHEDULER :> StrV("fifo")))},
        s \in {Absent,
               EmptyMap,
               MapV((SEARCH_ALG :> Alg("bayesopt"))),
               MapV((SEARCH_ALG :> Alg("bayesopt")) @@ ("num_samples" :> IntV(10))),
               MapV(("num_samples" :> IntV(10)) @@ (SCHEDULER :> StrV("async_hyperband")))},
        a \in {Absent, Alg("random")}}

StagedNumber ==
    {Absent,
     EmptyMap,
     MapV((PREPROCESSING :> MapV(("missing_value_strategy" :> StrV("fill_with_mean"))
                                 @@ ("normalization" :> StrV("zscore"))))),
     MapV((PREPROCESSING :> MapV(("missing_value_strategy" :> StrV("fill_with_const"))
                                 @@ ("opts" :> MapV(("a" :> IntV(1)) @@ ("b" :> IntV(2)))))))}

Preprocessings ==
    {Absent} \cup
    {Build((NUMBER :> n) @@ ("category" :> c) @@ ("split" :> s)) :
        n \in StagedNumber,
        c \in {Absent, EmptyMap, MapV((PREPROCESSING :> MapV(("most_common" :> IntV(10)))))},
        s \in {Absent, MapV((TYPE :> StrV("random")))}}

Defaultss ==
    {Absent} \cup
    {Build((NUMBER :> n) @@ ("category" :> c)) :
        n \in {Absent,
               EmptyMap,
               MapV((PREPROCESSING :> MapV(("missing_value_strategy" :> StrV("drop_row"))))),
               MapV((PREPROCESSING :> MapV(("fill_value" :> IntV(0))
                                           @@ ("opts" :> MapV(("a" :> IntV(9)) @@ ("c" :> IntV(3)))))))},
        c \in {Absent, MapV((PREPROCESSING :> EmptyMap))}}

\* one legacy value per section, to go with the section that varies
SomeTraining == {Absent, MapV((EVAL_BATCH_SIZE :> IntV(0)) @@ ("epochs" :> IntV(5)))}
SomeFeatures == {Absent, SeqV(<<MapV((TYPE :> StrV("numerical")) @@ ("bias" :> IntV(1)))>>)}
SomeHyperopt == {Absent, MapV((SAMPLER :> MapV((SEARCH_ALG :> Alg("bayesopt")))))}
SomePreprocessing == {Absent, MapV((NUMBER :> MapV((PREPROCESSING :> MapV(("normalization" :> StrV("zscore")))))))}
SomeTrainer == {Absent, MapV((EVAL_BATCH_SIZE :> IntV(0)))}
SomeOutFeatures == {Absent, SeqV(<<MapV((TYPE :> StrV("numerical")) @@ ("decoder" :> MapV(("bias" :> IntV(1)))))>>)}
SomeDefaults == {Absent, MapV((NUMBER :> MapV((PREPROCESSING :> MapV(("normalization" :> StrV("minmax")))))))}

Doc(training, trainer, inf, outf, hyperopt, preprocessing, defaults) ==
    Build((TRAINING :> training) @@ (TRAINER :> trainer) @@ (INPUT_FEATURES :> inf)
          @@ (OUTPUT_FEATURES :> outf) @@ (HYPEROPT :> hyperopt)
          @@ (PREPROCESSING :> preprocessing) @@ (DEFAULTS :> defaults))

Docs ==
    {Doc(t, r, f, Absent, h, p, Absent) :
        t \in Trainings, r \in Trainers, f \in SomeFeatures, h \in SomeHyperopt,
        p \in SomePreprocessing}
    \cup
    {Doc(t, Absent, f, o, h, p, Absent) :
        t \in SomeTraining, f \in {Absent} \cup ListsOf(Features),
        o \in {Absent} \cup ListsOf(OutFeatures), h \in SomeHyperopt, p \in SomePreprocessing}
    \cup
    {Doc(t, Absent, f, Absent, h, p, Absent) :
        t \in SomeTraining, f \in SomeFeatures, h \in Hyperopts, p \in SomePreprocessing}
    \cup
    {Doc(t, Absent, f, Absent, h, p, d) :
        t \in SomeTraining, f \in SomeFeatures, h \in SomeHyperopt,
        p \in Preprocessings, d \in Defaultss}
    \cup
    {Doc(t, r, f, o, h, p, d) :
        t \in SomeTraining, r \in SomeTrainer, f \in SomeFeatures, o \in SomeOutFeatures,
        h \in SomeHyperopt, p \in SomePreprocessing, d \in SomeDefaults}

(***************************************************************************)
(* The state machine.  pc is the position in upgrade_deprecated_fields;    *)
(* notices the notices of the current call; calls and walked the log of    *)
(* the last walk and the feature it walked; config0 the document as        *)
(* given; first the document as the first call left it.                    *)
(***************************************************************************)
Init ==
    /\ config \in Docs
    /\ config0 = config
    /\ first = config
    /\ pc = "training"
    /\ fi = 1
    /\ notices = <<>>
    /\ calls = <<>>
    /\ walked = EmptyMap
    /\ run = 1

\* lines 199-202
RenameTrainingStep ==
    /\ pc = "training"
    /\ LET r == RenameTraining(config)
       IN /\ config' = r.node
          /\ notices' = notices \o r.notes
    /\ pc' = "features"
    /\ fi' = 1
    /\ UNCHANGED <<calls, walked, config0, run, first>>

\* lines 204-205, one iteration
UpgradeFeatureStep ==
    /\ pc = "features"
    /\ fi <= Len(FeatureList(config))
    /\ LET feature == FeatureList(config)[fi]
           r == UpgradeFeature(feature)
       IN /\ config' = SetFeature(config, fi, r.node)
          /\ notices' = notices \o r.notes
          /\ calls' = r.calls
          /\ walked' = feature
    /\ fi' = fi + 1
    /\ UNCHANGED <<pc, config0, run, first>>

\* lines 207-208, after the loop
UpgradeHyperoptStep ==
    /\ pc = "features"
    /\ fi > Len(FeatureList(config))
    /\ IF Has(config, HYPEROPT)
       THEN LET r == UpgradeHyperopt(Get(config, HYPEROPT))
            IN /\ config' = Put(config, HYPEROPT, r.node)
               /\ notices' = notices \o r.notes
       ELSE UNCHANGED <<config, notices>>
    /\ pc' = "trainer"
    /\ UNCHANGED <<fi, calls, walked, config0, run, first>>

\* lines 210-211
UpgradeTrainerStep ==
    /\ pc = "trainer"
    /\ IF Has(config, TRAINER)
       THEN LET r == UpgradeTrainer(Get(config, TRAINER))
            IN /\ config' = Put(config, TRAINER, r.node)
               /\ notices' = notices \o r.notes
       ELSE UNCHANGED <<config, notices>>
    /\ pc' = "preprocessing"
    /\ UNCHANGED <<fi, calls, walked, config0, run, first>>

\* lines 213-214: the call returns, or the exception of the rule propagates
UpgradePreprocessingStep ==
    /\ pc = "preprocessing"
    /\ IF Has(config, PREPROCESSING)
       THEN \E order \in Orders(StagedTypes(config)) :
                LET r == UpgradePreprocessing(config, order)
                IN /\ config' = r.node
                   /\ notices' = notices \o r.notes
                   /\ pc' = IF r.ok THEN "done" ELSE "failed"
       ELSE /\ pc' = "done"
            /\ UNCHANGED <<config, notices>>
    /\ UNCHANGED <<fi, calls, walked, config0, run, first>>

\* the caller upgrades the upgraded document again
UpgradeAgain ==
    /\ pc = "done"
    /\ run < MaxRuns
    /\ run' = run + 1
    /\ first' = IF run = 1 THEN config ELSE first
    /\ pc' = "training"
    /\ fi' = 1
    /\ notices' = <<>>
    /\ UNCHANGED <<config, calls, walked, config0>>

Next ==
    \/ RenameTrainingStep
    \/ UpgradeFeatureStep
    \/ UpgradeHyperoptStep
    \/ UpgradeTrainerStep
    \/ UpgradePreprocessingStep
    \/ UpgradeAgain

Spec == Init /\ [][Next]_vars

(***************************************************************************)
(* Properties.                                                             *)
(***************************************************************************)
Done == pc = "done"
Hyperopt0 == Get(config0, HYPEROPT)
HyperoptNow == Get(config, HYPEROPT)

\* C1: a second call of upgrade_deprecated_fields on the result of a call
\* that completed leaves the document equal to that result.
C1_Idempotent == (Done /\ run >= 2) => config = first

C1_Witness ==
    /\ Done /\ run = 2
    /\ first # config0
    /\ Has(config0, HYPEROPT) /\ Has(config0, PREPROCESSING) /\ Has(config0, TRAINING)

\* a mapping node at any depth of v, also through nested lists, has a
\* deprecated bias key
RECURSIVE HasDeprecatedBias(_)
HasDeprecatedBias(v) ==
    IF IsDict(v)
    THEN \/ Keys(v) \cap {"bias", "conv_bias", "default_bias"} # {}
         \/ \E k \in Keys(v) : HasDeprecatedBias(Get(v, k))
    ELSE IF IsList(v)
    THEN \E i \in DOMAIN v.val : HasDeprecatedBias(v.val[i])
    ELSE FALSE

FeaturesOf(cfg) == {FeatureList(cfg)[i] : i \in DOMAIN FeatureList(cfg)}

\* C2: when the call completes no deprecated key of any rule remains: no
\* top-level training, no bias / conv_bias / default_bias in any mapping of a
\* feature, no feature of type "numerical", no hyperopt.sampler, no
\* hyperopt.executor.search_alg, no hyperopt parameter starting with
\* "training.", no registered feature type under preprocessing.
C2_NoDeprecatedKey ==
    Done =>
        /\ ~Has(config, TRAINING)
        /\ \A f \in FeaturesOf(config) :
              /\ ~HasDeprecatedBias(f)
              /\ GetOrNone(f, TYPE) # StrV("numerical")
        /\ Has(config, HYPEROPT) =>
              /\ ~Has(HyperoptNow, SAMPLER)
              /\ ~Has(Get(HyperoptNow, EXECUTOR), SEARCH_ALG)
              /\ Has(HyperoptNow, PARAMETERS) =>
                    \A k \in Keys(Get(HyperoptNow, PARAMETERS)) :
                        ~(Len(k) >= 9 /\ SubSeq(k, 1, 9) = "training.")
        /\ Has(config, PREPROCESSING) =>
              Keys(Get(config, PREPROCESSING)) \cap input_type_registry = {}

C2_Witness ==
    /\ Done /\ run = 1
    /\ Has(config0, TRAINING)
    /\ \E f \in FeaturesOf(config0) :
          /\ Has(f, "encoder") /\ Has(Get(f, "encoder"), "fc_layers")
          /\ HasDeprecatedBias(Get(f, "encoder"))
          /\ GetOrNone(f, TYPE) = StrV("numerical")
    /\ Has(config0, HYPEROPT) /\ Has(Hyperopt0, SAMPLER)
    /\ Has(config0, PREPROCESSING) /\ StagedTypes(config0) # {}

\* C3: upgrade_deprecated_fields never raises on a document whose sections
\* are mappings and whose feature lists are lists of mappings.
C3_NeverFails == pc # "failed"

\* the recursive union of existing and staged in which every leaf of
\* existing keeps its value
RECURSIVE UnionKeeping(_, _)
UnionKeeping(existing, staged) ==
    MapV([k \in Keys(existing) \cup Keys(staged) |->
            IF ~Has(existing, k) THEN Get(staged, k)
            ELSE IF ~Has(staged, k) THEN Get(existing, k)
            ELSE IF IsDict(Get(existing, k)) /\ IsDict(Get(staged, k))
                 THEN UnionKeeping(Get(existing, k), Get(staged, k))
                 ELSE Get(existing, k)])

\* feature type t is staged with a preprocessing mapping and
\* defaults[t].preprocessing is a mapping already
MergeCase(t) ==
    /\ Has(config0, PREPROCESSING) /\ Has(config0, DEFAULTS)
    /\ Has(Get(config0, PREPROCESSING), t) /\ Has(Get(config0, DEFAULTS), t)
    /\ Has(Get(Get(config0, PREPROCESSING), t), PREPROCESSING)
    /\ Has(Get(Get(config0, DEFAULTS), t), PREPROCESSING)

\* C4: in the merge case defaults[T].preprocessing ends as the recursive
\* union of the existing mapping and the staged one, every leaf of the
\* existing mapping keeping its value.
C4_ExistingLeavesKept ==
    Done =>
        \A t \in input_type_registry :
            MergeCase(t) =>
                Get(Get(Get(config, DEFAULTS), t), PREPROCESSING)
                    = UnionKeeping(Get(Get(Get(config0, DEFAULTS), t), PREPROCESSING),
                                   Get(Get(Get(config0, PREPROCESSING), t), PREPROCESSING))

\* C5, as claimed: after the upgrade of a document with a hyperopt section
\* hyperopt.executor exists and its type is "ray", also when the executor
\* was there with no type.
C5_ExecutorAlwaysRay ==
    (Done /\ Has(config0, HYPEROPT)) =>
        /\ Has(HyperoptNow, EXECUTOR)
        /\ GetOrNone(Get(HyperoptNow, EXECUTOR), TYPE) = StrV(RAY)

NoTypeExecutor0 == Has(Hyperopt0, EXECUTOR) /\ ~Has(Get(Hyperopt0, EXECUTOR), TYPE)

\* C5, amended: after the upgrade of a document with a hyperopt section
\* hyperopt.executor exists; its type is "ray" when the executor was absent
\* or declared a type, and it still has no type when it declared none.
C5_ExecutorRayUnlessUntyped ==
    (Done /\ Has(config0, HYPEROPT)) =>
        /\ Has(HyperoptNow, EXECUTOR)
        /\ IF NoTypeExecutor0
           THEN ~Has(Get(HyperoptNow, EXECUTOR), TYPE)
           ELSE Get(Get(HyperoptNow, EXECUTOR), TYPE) = StrV(RAY)

C5_Witness ==
    /\ Done /\ run = 1 /\ Has(config0, HYPEROPT)
    /\ NoTypeExecutor0
    /\ Has(Hyperopt0, SAMPLER) /\ Has(Get(Hyperopt0, SAMPLER), "num_samples")

\* C6: every step that changes the document emits at least one notice.
C6_NoSilentRewrite == [][config' # config => Len(notices') > Len(notices)]_vars

\* the first available of the top-level search_alg, executor.search_alg,
\* sampler.search_alg and the default
ResolvedSearchAlg(h) ==
    IF Has(h, SEARCH_ALG) THEN Get(h, SEARCH_ALG)
    ELSE IF Has(h, EXECUTOR) /\ Has(Get(h, EXECUTOR), SEARCH_ALG)
         THEN Get(Get(h, EXECUTOR), SEARCH_ALG)
    ELSE IF Has(h, SAMPLER) /\ Has(Get(h, SAMPLER), SEARCH_ALG)
         THEN Get(Get(h, SAMPLER), SEARCH_ALG)
    ELSE MapV((TYPE :> StrV("variant_generator")))

\* C7: after the upgrade hyperopt.search_alg is the first available of the
\* top-level value, executor.search_alg, sampler.search_alg and the default,
\* and executor.search_alg and sampler are gone.
C7_SearchAlgResolution ==
    (Done /\ Has(config0, HYPEROPT)) =>
        /\ Has(HyperoptNow, SEARCH_ALG)
        /\ Get(HyperoptNow, SEARCH_ALG) = ResolvedSearchAlg(Hyperopt0)
        /\ ~Has(HyperoptNow, SAMPLER)
        /\ ~Has(Get(HyperoptNow, EXECUTOR), SEARCH_ALG)

C7_Witness ==
    /\ Done /\ run = 1 /\ Has(config0, HYPEROPT)
    /\ Has(Hyperopt0, SEARCH_ALG)
    /\ Has(Hyperopt0, EXECUTOR) /\ Has(Get(Hyperopt0, EXECUTOR), SEARCH_ALG)
    /\ Has(Hyperopt0, SAMPLER) /\ Has(Get(Hyperopt0, SAMPLER), SEARCH_ALG)
    /\ Get(Hyperopt0, SEARCH_ALG) # Get(Get(Hyperopt0, EXECUTOR), SEARCH_ALG)

\* the former training value with eval_batch_size 0 turned into None
TrainerOf(training) ==
    IF GetOrNone(training, EVAL_BATCH_SIZE) = IntV(0)
    THEN Put(training, EVAL_BATCH_SIZE, NoneV)
    ELSE training

\* C8: the trainer rule runs after the rename: at the end training is
\* absent, trainer is the former training value (whatever trainer was
\* there) with eval_batch_size 0 turned into None, and no trainer has
\* eval_batch_size 0.
C8_TrainerAfterRename ==
    (pc \in {"done", "failed"}) =>
        /\ ~Has(config, TRAINING)
        /\ Has(config0, TRAINING) =>
              /\ Has(config, TRAINER)
              /\ Get(config, TRAINER) = TrainerOf(Get(config0, TRAINING))
        /\ Has(config, TRAINER) => GetOrNone(Get(config, TRAINER), EVAL_BATCH_SIZE) # IntV(0)

C8_Witness ==
    /\ Done /\ run = 1
    /\ Has(config0, TRAINING) /\ Has(config0, TRAINER)
    /\ GetOrNone(Get(config0, TRAINING), EVAL_BATCH_SIZE) = IntV(0)
    /\ GetOrNone(Get(config0, TRAINER), EVAL_BATCH_SIZE) = IntV(16)
    /\ Get(Get(config, TRAINER), EVAL_BATCH_SIZE) = NoneV

\* the paths of the mapping nodes of v
RECURSIVE MapPaths(_, _)
MapPaths(v, path) ==
    IF IsDict(v)
    THEN {path} \cup UNION {MapPaths(Get(v, k), Append(path, k)) : k \in Keys(v)}
    ELSE IF IsList(v)
    THEN UNION {MapPaths(v.val[i], Append(path, Idx(i))) : i \in DOMAIN v.val}
    ELSE {}

ProperPrefix(p, q) == Len(p) < Len(q) /\ SubSeq(q, 1, Len(p)) = p

\* C9: the walk of a feature calls f exactly once on every mapping node of
\* the tree, on nothing else, and on a mapping only after every mapping
\* below it.
C9_PostOrderWalk ==
    (pc = "features" /\ fi > 1) =>
        /\ {calls[i] : i \in DOMAIN calls} = MapPaths(walked, <<>>)
        /\ Len(calls) = Cardinality(MapPaths(walked, <<>>))
        /\ \A i, j \in DOMAIN calls : ProperPrefix(calls[i], calls[j]) => j < i

C9_Witness ==
    /\ pc = "features" /\ fi > 1
    /\ <<"encoder", "fc_layers", "1", "1">> \in MapPaths(walked, <<>>)
    /\ <<"encoder", "fc_layers", "2">> \in MapPaths(walked, <<>>)
    /\ calls[Len(calls)] = <<>>

\* C10: on a document whose preprocessing section holds no registered
\* feature type and that has no defaults key, no defaults key is added.
C10_NoDefaultsAdded ==
    (Done /\ Has(config0, PREPROCESSING) /\ StagedTypes(config0) = {} /\ ~Has(config0, DEFAULTS))
        => ~Has(config, DEFAULTS)

=============================================================================
